---- MODULE Spec2Model ----
(***************************************************************************)
(* Model of CasualNotes' text-to-infographic pipeline (src/app.py):        *)
(* safe_clean, convert_to_professional_schema, fallback_from_text and the  *)
(* /generate request handler.                                              *)
(*                                                                         *)
(* Text is a sequence of one-character strings, so that trimming,          *)
(* slicing, substring search and case folding are computed character by    *)
(* character as Python computes them.                                      *)
(***************************************************************************)
EXTENDS Integers, Sequences, FiniteSets, TLC

VARIABLES
    pc,          \* position of the /generate handler
    client,      \* module-level Gemini client: TRUE = configured, FALSE = None
    req,         \* the HTTP request body being served
    user_text,   \* local user_text of generate (after .strip())
    calls,       \* remote generate_content calls made, in order
    outcomes,    \* outcome of each remote call ("raised" / "ok"), in order
    raw,         \* local raw: the reply text of the successful attempt
    source,      \* local source: model that produced raw
    failure,     \* which except clause of the inner try was entered, if any
    log_calls,   \* log_raw invocations, each with whether the append succeeded
    result,      \* the value handed to jsonify and returned
    returns,     \* number of return statements executed for the request
    fpc,         \* position of a direct call of one of the pure functions
    fin,         \* argument of that call
    fout         \* value it returned

vars == <<pc, client, req, user_text, calls, outcomes, raw, source, failure,
          log_calls, result, returns, fpc, fin, fout>>

gvars == <<pc, client, req, user_text, calls, outcomes, raw, source, failure,
           log_calls, result, returns>>

----------------------------------------------------------------------------
(* Characters and Python string primitives                                 *)

\* the backtick character (U+0060); a TLA+ string cannot hold one, so "^" stands
\* for it: no other character of the model is "^"
BT == "^"

IsSpace(c) == c \in {" ", "\n", "\t"}

UpperToLower ==
    [c \in {"A","B","C","D","E","F","G","H","I","J","K","L","M",
            "N","O","P","Q","R","S","T","U","V","W","X","Y","Z"} |->
        CASE c = "A" -> "a" [] c = "B" -> "b" [] c = "C" -> "c" [] c = "D" -> "d"
          [] c = "E" -> "e" [] c = "F" -> "f" [] c = "G" -> "g" [] c = "H" -> "h"
          [] c = "I" -> "i" [] c = "J" -> "j" [] c = "K" -> "k" [] c = "L" -> "l"
          [] c = "M" -> "m" [] c = "N" -> "n" [] c = "O" -> "o" [] c = "P" -> "p"
          [] c = "Q" -> "q" [] c = "R" -> "r" [] c = "S" -> "s" [] c = "T" -> "t"
          [] c = "U" -> "u" [] c = "V" -> "v" [] c = "W" -> "w" [] c = "X" -> "x"
          [] c = "Y" -> "y" [] c = "Z" -> "z"]

LowerToUpper ==
    [c \in {"a","b","c","d","e","f","g","h","i","j","k","l","m",
            "n","o","p","q","r","s","t","u","v","w","x","y","z"} |->
        CHOOSE u \in DOMAIN UpperToLower : UpperToLower[u] = c]

\* str.lower()
lower(s) == [i \in 1..Len(s) |-> IF s[i] \in DOMAIN UpperToLower
                                  THEN UpperToLower[s[i]] ELSE s[i]]

\* str.upper()
upper(s) == [i \in 1..Len(s) |-> IF s[i] \in DOMAIN LowerToUpper
                                  THEN LowerToUpper[s[i]] ELSE s[i]]

\* s[:n]
Take(s, n) == SubSeq(s, 1, IF n < Len(s) THEN n ELSE Len(s))

\* whether sub occurs in s at the 1-based position i
MatchAt(s, sub, i) ==
    /\ i >= 1
    /\ i + Len(sub) - 1 <= Len(s)
    /\ \A k \in 1..Len(sub) : s[i + k - 1] = sub[k]

\* the 1-based position of the first occurrence of sub in s at or after
\* position i, or Len(s) + 1 when there is none
FirstMatch(s, sub, i) ==
    CHOOSE j \in i..(Len(s) + 1) :
        /\ j = Len(s) + 1 \/ MatchAt(s, sub, j)
        /\ \A k \in i..(j - 1) : ~MatchAt(s, sub, k)

\* the 1-based position of the last occurrence of sub in s, or 0
LastMatch(s, sub) ==
    CHOOSE j \in 0..Len(s) :
        /\ j = 0 \/ MatchAt(s, sub, j)
        /\ \A k \in (j + 1)..Len(s) : ~MatchAt(s, sub, k)

\* str.find(sub): 0-based index of the first occurrence, -1 when there is none
find(s, sub) ==
    LET j == FirstMatch(s, sub, 1)
    IN  IF j = Len(s) + 1 THEN -1 ELSE j - 1

\* str.rfind(sub): 0-based index of the last occurrence, -1 when there is none
rfind(s, sub) == LastMatch(s, sub) - 1

\* sub in s
Contains(s, sub) == find(s, sub) # -1

\* the position of the first character at or after position i that is no white
\* space, or Len(s) + 1
FirstNonSpace(s, i) ==
    CHOOSE j \in i..(Len(s) + 1) :
        /\ j = Len(s) + 1 \/ ~IsSpace(s[j])
        /\ \A k \in i..(j - 1) : IsSpace(s[k])

\* the position of the last character that is no white space, or 0
LastNonSpace(s) ==
    CHOOSE j \in 0..Len(s) :
        /\ j = 0 \/ ~IsSpace(s[j])
        /\ \A k \in (j + 1)..Len(s) : IsSpace(s[k])

\* str.strip(): the text between the first and the last non-space character
strip(s) == SubSeq(s, FirstNonSpace(s, 1), LastNonSpace(s))

\* str.replace(old, ""), from position i on: occurrences are found left to
\* right and do not overlap
RECURSIVE RemoveAll(_, _, _)
RemoveAll(s, old, i) ==
    LET j == FirstMatch(s, old, i)
    IN  IF j = Len(s) + 1 THEN SubSeq(s, i, Len(s))
        ELSE SubSeq(s, i, j - 1) \o RemoveAll(s, old, j + Len(old))

\* flattening of a sequence of texts
RECURSIVE Concat(_)
Concat(ss) == IF ss = <<>> THEN <<>> ELSE Head(ss) \o Concat(Tail(ss))

\* all sequences over S of length at most n
SeqUpTo(S, n) == UNION {[1..k -> S] : k \in 0..n}

----------------------------------------------------------------------------
(* safe_clean                                                              *)

FENCE == <<BT, BT, BT>>

JSON_TAG == <<"j", "s", "o", "n">>

\* SubFence with the tag matched in lower case only (re.IGNORECASE forgotten)
RECURSIVE SubFence_CaseSensitive(_, _)
SubFence_CaseSensitive(s, i) ==
    LET j == FirstMatch(s, FENCE, i)
    IN  IF j = Len(s) + 1 THEN SubSeq(s, i, Len(s))
        ELSE SubSeq(s, i, j - 1) \o
             SubFence_CaseSensitive(s, IF MatchAt(s, JSON_TAG, j + 3)
                                       THEN j + 7 ELSE j + 3)

\* re.sub of a fence (three backticks, then optionally "json" in any case) by
\* the empty string, line 97, from position i on: matches are found left to
\* right and do not overlap; the optional tag is taken when present
RECURSIVE SubFence(_, _)
SubFence(s, i) ==
    LET j == FirstMatch(s, FENCE, i)
    IN  IF j = Len(s) + 1 THEN SubSeq(s, i, Len(s))
        ELSE SubSeq(s, i, j - 1) \o
             SubFence(s, IF MatchAt(lower(s), JSON_TAG, j + 3) THEN j + 7 ELSE j + 3)

\* lines 97-98
CleanedOf(raw_) == strip(RemoveAll(SubFence(raw_, 1), FENCE, 1))

\* lines 101-105
ExtractObject(cleaned) ==
    LET first == find(cleaned, <<"{">>)
        last  == rfind(cleaned, <<"}">>)
    IN  IF first # -1 /\ last # -1
        THEN SubSeq(cleaned, first + 1, last + 1)   \* cleaned[first:last+1]
        ELSE cleaned

safe_clean(raw_) == ExtractObject(CleanedOf(raw_))

----------------------------------------------------------------------------
(* fallback_from_text                                                      *)

TITLE_LEN == 40

MAIN_LEN == 120

STEP_LEN == 100

MAX_EXTRA == 4

PLACEHOLDER_TITLE ==
    <<"P","R","O","F","E","S","S","I","O","N","A","L"," ","I","N","F","O","G","R","A","P","H","I","C">>

NO_CONTENT ==
    <<"N","o"," ","m","e","a","n","i","n","g","f","u","l"," ","c","o","n","t","e","n","t"," ","f","o","u","n","d",".">>

FALLBACK_NOTE == "LOCAL FALLBACK - API unavailable"

colors == <<"blue", "green", "orange", "red", "purple", "teal">>

IsDelim(c) == c \in {".", "\n", "!", "?"}

\* the position of the first delimiter at or after position i, or Len(s) + 1
FirstDelim(s, i) ==
    CHOOSE j \in i..(Len(s) + 1) :
        /\ j = Len(s) + 1 \/ IsDelim(s[j])
        /\ \A k \in i..(j - 1) : ~IsDelim(s[k])

\* the index after the whitespace run that starts at i (the \s* of the pattern)
SkipSpace(s, i) == FirstNonSpace(s, i)

\* re.split(r'[.\n!?]\s*', s), from position i on: the pieces between the
\* matches, left to right
RECURSIVE SplitFrom(_, _)
SplitFrom(s, i) ==
    LET d == FirstDelim(s, i)
    IN  IF d = Len(s) + 1 THEN <<SubSeq(s, i, Len(s))>>
        ELSE <<SubSeq(s, i, d - 1)>> \o SplitFrom(s, SkipSpace(s, d + 1))

re_split(s) == SplitFrom(s, 1)

\* line 175: [s.strip() for s in re.split(...) if s.strip()]
Sentences(text) ==
    LET pieces == re_split(text)
        stripped == [i \in 1..Len(pieces) |-> strip(pieces[i])]
    IN  SelectSeq(stripped, LAMBDA p : p # <<>>)

\* lines 178-180
FallbackTitle(text) ==
    LET sentences == Sentences(text)
        t == upper(Take(IF sentences # <<>> THEN sentences[1] ELSE text, TITLE_LEN))
    IN  IF t = <<>> THEN PLACEHOLDER_TITLE ELSE t

COMPARISON_WORDS ==
    <<<<"v","s">>,
      <<"v","e","r","s","u","s">>,
      <<"c","o","m","p","a","r","e">>,
      <<"c","o","m","p","a","r","i","s","o","n">>,
      <<"d","i","f","f","e","r","e","n","c","e">>>>

HIERARCHY_WORDS ==
    <<<<"h","i","e","r","a","r","c","h","y">>,
      <<"p","r","i","o","r","i","t","y">>,
      <<"l","e","v","e","l">>,
      <<"r","a","n","k">>,
      <<"t","i","e","r">>>>

CONCEPT_WORDS ==
    <<<<"c","o","n","c","e","p","t">>,
      <<"i","d","e","a">>,
      <<"c","e","n","t","r","a","l">>,
      <<"c","o","r","e">>,
      <<"m","a","i","n">>>>

\* any(word in user_text.lower() for word in words)
AnyWordIn(words, text) ==
    \E k \in 1..Len(words) : Contains(lower(text), words[k])

\* FallbackLayout with the hierarchy keywords tried before the comparison ones
FallbackLayout_HierarchyFirst(text) ==
    IF AnyWordIn(HIERARCHY_WORDS, text) THEN "hierarchy"
    ELSE IF AnyWordIn(COMPARISON_WORDS, text) THEN "comparison"
    ELSE IF AnyWordIn(CONCEPT_WORDS, text) THEN "concept_map"
    ELSE "process_flow"

\* lines 183-191
FallbackLayout(text) ==
    IF AnyWordIn(COMPARISON_WORDS, text) THEN "comparison"
    ELSE IF AnyWordIn(HIERARCHY_WORDS, text) THEN "hierarchy"
    ELSE IF AnyWordIn(CONCEPT_WORDS, text) THEN "concept_map"
    ELSE "process_flow"

\* lines 197-205
MainSection(sentences) ==
    [role |-> "main_concept", text |-> Take(sentences[1], MAIN_LEN),
     color |-> colors[1], emphasis |-> "primary", visual_weight |-> "heavy"]

\* ExtraSections over sentences[1:] instead of sentences[1:5]
ExtraSections_NoCap(sentences, layout) ==
    [i \in 1..(Len(sentences) - 1) |->
        [role |-> IF layout = "process_flow" THEN "process_step"
                  ELSE "supporting_point",
         text |-> Take(sentences[i + 1], STEP_LEN),
         color |-> colors[(i % Len(colors)) + 1],
         emphasis |-> "secondary", visual_weight |-> "medium"]]

\* lines 207-217: enumerate(sentences[1:5], 1); colors[i % len(colors)] is the
\* 1-based colors[(i % 6) + 1]
ExtraSections(sentences, layout) ==
    LET n == IF Len(sentences) - 1 < MAX_EXTRA THEN Len(sentences) - 1 ELSE MAX_EXTRA
    IN  [i \in 1..n |->
            [role |-> IF layout = "process_flow" THEN "process_step"
                      ELSE "supporting_point",
             text |-> Take(sentences[i + 1], STEP_LEN),
             color |-> colors[(i % Len(colors)) + 1],
             emphasis |-> "secondary", visual_weight |-> "medium"]]

\* lines 220-227
OnlySection(text) ==
    [role |-> "main_concept",
     text |-> IF text # <<>> THEN Take(text, MAIN_LEN) ELSE NO_CONTENT,
     color |-> "blue", emphasis |-> "primary", visual_weight |-> "heavy"]

\* lines 193-227
FallbackSections(text, layout) ==
    LET sentences == Sentences(text)
        built == IF sentences # <<>>
                 THEN <<MainSection(sentences)>> \o
                      (IF Len(sentences) > 1 THEN ExtraSections(sentences, layout)
                       ELSE <<>>)
                 ELSE <<>>
    IN  IF built = <<>> THEN <<OnlySection(text)>> ELSE built

fallback_from_text(text) ==
    LET layout == FallbackLayout(text)
    IN  [title |-> FallbackTitle(text),
         layout |-> layout,
         visual_flow |-> "top_to_bottom",
         sections |-> FallbackSections(text, layout),
         note |-> FALLBACK_NOTE]

----------------------------------------------------------------------------
(* JSON values                                                             *)
(* A JSON object is a record whose DOMAIN is its key set.  A value whose   *)
(* JSON type the code does not control (a section's "type") is tagged:     *)
(* [str |-> TRUE, v |-> characters] for a string, [str |-> FALSE, ...] for *)
(* a number or null (v then holds its printed form).                       *)

Str(chars) == [str |-> TRUE, v |-> chars]

NonStr(chars) == [str |-> FALSE, v |-> chars]

HasKey(d, k) == k \in DOMAIN d

BOX == <<"b","o","x">>

ICON_BOX == <<"i","c","o","n","_","b","o","x">>

ARROW == <<"a","r","r","o","w">>

CONNECTOR == <<"c","o","n","n","e","c","t","o","r">>

PROCESS == <<"p","r","o","c","e","s","s">>

LIST == <<"l","i","s","t">>

DEFAULT_TITLE == PLACEHOLDER_TITLE

----------------------------------------------------------------------------
(* convert_to_professional_schema                                          *)

\* parsed_data.get("sections", [])
SectionsOf(parsed) == IF HasKey(parsed, "sections") THEN parsed.sections ELSE <<>>

\* lines 111-112: the structure already has the new format
IsNewFormat(parsed) ==
    \/ HasKey(parsed, "visual_flow")
    \/ /\ SectionsOf(parsed) # <<>>
       /\ \E i \in 1..Len(parsed.sections) : HasKey(parsed.sections[i], "role")

\* line 124: section.get("type", "")
SectionTypes(old_sections) ==
    [i \in 1..Len(old_sections) |->
        IF HasKey(old_sections[i], "type") THEN old_sections[i].type ELSE Str(<<>>)]

\* line 125: "arrow" in section_types
HasArrow(section_types) ==
    \E i \in 1..Len(section_types) : section_types[i] = Str(ARROW)

\* "list" in stype is True
IsListType(stype) == stype.str /\ Contains(stype.v, LIST)

\* line 128: any("list" in stype for stype in section_types) stops at the first
\* True; "list" in stype raises TypeError for a stype that is a number or null
AnyListRaises(section_types) ==
    \E i \in 1..Len(section_types) :
        /\ ~section_types[i].str
        /\ \A k \in 1..(i - 1) : ~IsListType(section_types[k])

AnyList(section_types) ==
    \E i \in 1..Len(section_types) : IsListType(section_types[i])

\* whether the call raises instead of returning (line 128 is reached only when
\* line 125 is false)
ConvertRaises(parsed) ==
    /\ ~IsNewFormat(parsed)
    /\ ~HasArrow(SectionTypes(SectionsOf(parsed)))
    /\ AnyListRaises(SectionTypes(SectionsOf(parsed)))

\* lines 120-131
LegacyLayout(old_sections) ==
    LET section_types == SectionTypes(old_sections)
    IN  IF HasArrow(section_types) THEN "process_flow"
        ELSE IF AnyList(section_types) THEN "concept_map"
        ELSE IF Len(old_sections) > 4 THEN "hierarchy"
        ELSE "process_flow"

LegacyVisualFlow(old_sections) ==
    IF HasArrow(SectionTypes(old_sections)) /\ Len(old_sections) <= 4
    THEN "left_to_right" ELSE "top_to_bottom"

\* line 136: section.get("type", "box")
OldType(section) == IF HasKey(section, "type") THEN section.type ELSE Str(BOX)

\* RoleOf without the position test of line 139
RoleOf_AnyPosition(old_type, i) ==
    IF old_type \in {Str(BOX), Str(ICON_BOX)}
    THEN [role |-> "main_concept", emphasis |-> "primary", visual_weight |-> "heavy"]
    ELSE IF old_type \in {Str(ARROW), Str(CONNECTOR)}
    THEN [role |-> "connector", emphasis |-> "tertiary", visual_weight |-> "light"]
    ELSE IF old_type \in {Str(PROCESS), Str(LIST)}
    THEN [role |-> "process_step", emphasis |-> "secondary", visual_weight |-> "medium"]
    ELSE [role |-> "supporting_point", emphasis |-> "secondary",
          visual_weight |-> "medium"]

\* lines 139-154; i is the 0-based position of enumerate
RoleOf(old_type, i) ==
    IF old_type \in {Str(BOX), Str(ICON_BOX)} /\ i = 0
    THEN [role |-> "main_concept", emphasis |-> "primary", visual_weight |-> "heavy"]
    ELSE IF old_type \in {Str(ARROW), Str(CONNECTOR)}
    THEN [role |-> "connector", emphasis |-> "tertiary", visual_weight |-> "light"]
    ELSE IF old_type \in {Str(PROCESS), Str(LIST)}
    THEN [role |-> "process_step", emphasis |-> "secondary", visual_weight |-> "medium"]
    ELSE [role |-> "supporting_point", emphasis |-> "secondary",
          visual_weight |-> "medium"]

\* lines 135-163
NewSection(section, i) ==
    LET r == RoleOf(OldType(section), i)
    IN  [role |-> r.role,
         text |-> IF HasKey(section, "text") THEN section.text ELSE <<>>,
         color |-> IF HasKey(section, "color") THEN section.color ELSE "blue",
         emphasis |-> r.emphasis,
         visual_weight |-> r.visual_weight]

\* the value returned when the call does not raise
convert_to_professional_schema(parsed) ==
    IF IsNewFormat(parsed) THEN parsed
    ELSE LET old_sections == SectionsOf(parsed)
         IN  [title |-> IF HasKey(parsed, "title") THEN parsed.title
                        ELSE DEFAULT_TITLE,
              layout |-> LegacyLayout(old_sections),
              visual_flow |-> LegacyVisualFlow(old_sections),
              sections |-> [i \in 1..Len(old_sections) |->
                               NewSection(old_sections[i], i - 1)]]

----------------------------------------------------------------------------
(* Replies of the remote service and json.loads                            *)
(* A reply is text over fences, braces, white space, prose and payload     *)
(* atoms.  A payload atom is one symbol standing for the member list of a  *)
(* JSON object (everything between its outer braces); PayloadOf gives the  *)
(* object that member list denotes.                                        *)

PROSE == <<"o","k">>

T_PLAN == <<"P","l","a","n">>

NEW_DOC ==
    [title |-> T_PLAN, layout |-> "hierarchy", visual_flow |-> "layered",
     sections |-> <<[role |-> "main_concept", text |-> <<"A">>, color |-> "blue",
                     emphasis |-> "primary", visual_weight |-> "heavy"],
                    [role |-> "conclusion", text |-> <<"B">>, color |-> "teal",
                     emphasis |-> "tertiary", visual_weight |-> "light"]>>]

LEGACY_DOC ==
    [title |-> T_PLAN,
     sections |-> <<[type |-> Str(BOX), text |-> <<"A">>],
                    [type |-> Str(ARROW), text |-> <<"-", ">">>],
                    [type |-> Str(LIST), text |-> <<"B">>, color |-> "green"]>>]

NO_TITLE_DOC == [sections |-> <<[type |-> Str(BOX), text |-> <<"A">>]>>]

NO_SECTIONS_DOC == [title |-> T_PLAN]

\* passes the field check of line 295 and has the new format's signature
BARE_DOC == [title |-> <<>>, visual_flow |-> "diagonal", sections |-> <<>>]

EMPTY_LEGACY_DOC == [title |-> T_PLAN, sections |-> <<>>]

BAD_TYPE_DOC == [title |-> T_PLAN, sections |-> <<[type |-> NonStr(<<"5">>)]>>]

ATOMS == {"<NEW>", "<LEGACY>", "<NO_TITLE>", "<NO_SECTIONS>", "<BARE>",
          "<EMPTY_LEGACY>", "<BAD_TYPE>"}

PayloadOf(atom) ==
    CASE atom = "<NEW>" -> NEW_DOC
      [] atom = "<LEGACY>" -> LEGACY_DOC
      [] atom = "<NO_TITLE>" -> NO_TITLE_DOC
      [] atom = "<NO_SECTIONS>" -> NO_SECTIONS_DOC
      [] atom = "<BARE>" -> BARE_DOC
      [] atom = "<EMPTY_LEGACY>" -> EMPTY_LEGACY_DOC
      [] atom = "<BAD_TYPE>" -> BAD_TYPE_DOC

\* the reply texts the service may return (response.text or "")
REPLIES ==
    << <<"{", "<NEW>", "}">>,
       FENCE \o JSON_TAG \o <<"\n", "{", "<NEW>", "}", "\n">> \o FENCE,
       PROSE \o <<" ", "{", " ", "<LEGACY>", " ", "}", " ">> \o PROSE,
       <<"{", "<NO_TITLE>", "}">>,
       <<"{", "<NO_SECTIONS>", "}">>,
       <<"{", "}">>,
       <<"{", "<BARE>", "}">>,
       <<"{", "<EMPTY_LEGACY>", "}">>,
       <<"{", "<BAD_TYPE>", "}">>,
       <<"5">>,
       <<>>,
       PROSE,
       <<"}", " ", "{">>,
       <<"{", "<NEW>", "}", " ", "{", "<NEW>", "}">>,
       <<"{", "<NEW>">> >>

\* json.loads on the texts above.  t: "dict" (v is the object), "num" (a JSON
\* number: no object) or "error" (json.JSONDecodeError is raised)
json_loads(text) ==
    LET u == strip(text)
        inner == strip(SubSeq(u, 2, Len(u) - 1))
    IN  IF u = <<"5">> THEN [t |-> "num", v |-> <<>>]
        ELSE IF Len(u) >= 2 /\ u[1] = "{" /\ u[Len(u)] = "}"
        THEN IF inner = <<>> THEN [t |-> "dict", v |-> <<>>]
             ELSE IF Len(inner) = 1 /\ inner[1] \in ATOMS
             THEN [t |-> "dict", v |-> PayloadOf(inner[1])]
             ELSE [t |-> "error", v |-> <<>>]
        ELSE [t |-> "error", v |-> <<>>]

----------------------------------------------------------------------------
(* The /generate handler                                                   *)

MaxReqTokens == 2

REQ_TOKENS == <<<<" ">>, <<"\n">>, <<"G","o",".">>, <<"A"," ","v","s"," ","B">>>>

\* the request texts: the tokens above, concatenated
RequestTexts ==
    {Concat([i \in 1..Len(w) |-> REQ_TOKENS[w[i]]]) :
        w \in SeqUpTo(1..Len(REQ_TOKENS), MaxReqTokens)}

\* request bodies.  unreadable: request.get_json() raises; nodata: it returns
\* None or an empty object; nondict: a non-empty JSON array; no_text_key: an
\* object without "text"; text_not_str: "text" is a number or null; text: "text"
\* is a string
RequestKinds == {"unreadable", "nodata", "nondict", "no_text_key", "text_not_str", "text"}

Request(kind, text) == [kind |-> kind, text |-> text]

NO_DATA_RESULT ==
    [title |-> <<"E","R","R","O","R">>,
     sections |-> <<[type |-> Str(BOX), text |-> <<"N","o"," ","d","a","t","a"," ","r","e","c","e","i","v","e","d",".">>, color |-> "red"]>>]

NO_INPUT_RESULT ==
    [title |-> <<"E","R","R","O","R">>,
     sections |-> <<[type |-> Str(BOX), text |-> <<"N","o"," ","i","n","p","u","t"," ","p","r","o","v","i","d","e","d",".">>, color |-> "red"]>>]

SYSTEM_ERROR_RESULT ==
    [title |-> <<"S","Y","S","T","E","M"," ","E","R","R","O","R">>,
     sections |-> <<[type |-> Str(BOX), text |-> <<"A","n"," ","u","n","e","x","p","e","c","t","e","d"," ","e","r","r","o","r"," ","o","c","c","u","r","r","e","d",".">>, color |-> "red"],
                    [type |-> Str(BOX), text |-> <<"P","l","e","a","s","e"," ","t","r","y"," ","a","g","a","i","n"," ","o","r"," ","c","o","n","t","a","c","t"," ","s","u","p","p","o","r","t",".">>, color |-> "orange"]>>,
     note |-> "SYSTEM_ERROR"]

PRIMARY_MODEL == "gemini-2.5-flash"

SECONDARY_MODEL == "gemini-2.5-pro"

\* the arguments of client.models.generate_content
RemoteCall(model, text) ==
    [model |-> model,
     contents |-> <<"NAPKIN_PROMPT", "\n", "\n">> \o text,
     config |-> "application/json"]

\* log_raw: the record handed to it and whether it was appended to LOGFILE
\* (log_raw swallows a failure to write)
log_raw(log, text, raw_output, note, ok) ==
    Append(log, [note |-> note, user_input |-> text, raw_output |-> raw_output,
                 written |-> ok])

\* the handler without its outermost try: the exception leaves generate
OuterExcept_Missing == "propagated"

\* where an exception that reaches line 316 is handled
OuterExcept == "fatal"

\* InnerExcept without the json.JSONDecodeError clause of line 303
InnerExcept_OneClause(error) == "api_error"

\* lines 303 and 306: the except clause that takes an error of the inner try
InnerExcept(error) == IF error = "JSONDecodeError" THEN "json_error" ELSE "api_error"

\* AfterValidation without the test of line 262
AfterValidation_IgnoresClient(c) == "primary"

\* the next step once user_text is known to be non-empty (line 262)
AfterValidation(c) == IF c THEN "primary" ELSE "fallback"

\* no second attempt: the primary call's exception goes to line 306
AfterPrimaryRaised_NoRetry == "api_error"

\* the step taken when the primary call raises (line 275)
AfterPrimaryRaised == "secondary"

\* line 254 without .strip()
UserText_NoStrip(r) == r.text

\* line 254: data.get("text", "").strip()
UserText(r) == strip(r.text)

Return(value) ==
    /\ result' = value
    /\ returns' = returns + 1
    /\ pc' = "done"

Receive ==
    /\ pc = "idle"
    /\ \E kind \in RequestKinds :
          \E text \in (IF kind = "text" THEN RequestTexts ELSE {<<>>}) :
              req' = Request(kind, text)
    /\ pc' = "validate"
    /\ UNCHANGED <<client, user_text, calls, outcomes, raw, source, failure,
                   log_calls, result, returns, fpc, fin, fout>>

\* lines 247-262
Validate ==
    /\ pc = "validate"
    /\ \/ /\ req.kind \in {"unreadable", "nondict", "text_not_str"}
          /\ failure' = IF req.kind = "unreadable" THEN "HTTPException"
                        ELSE "AttributeError"
          /\ pc' = OuterExcept
          /\ UNCHANGED <<user_text, result, returns>>
       \/ /\ req.kind = "nodata"
          /\ Return(NO_DATA_RESULT)
          /\ UNCHANGED <<user_text, failure>>
       \/ /\ req.kind \in {"no_text_key", "text"}
          /\ user_text' = UserText(req)
          /\ IF user_text' = <<>>
             THEN Return(NO_INPUT_RESULT)
             ELSE /\ pc' = AfterValidation(client)
                  /\ UNCHANGED <<result, returns>>
          /\ UNCHANGED failure
    /\ UNCHANGED <<client, req, calls, outcomes, raw, source, log_calls,
                   fpc, fin, fout>>

\* lines 265-276
CallPrimary ==
    /\ pc = "primary"
    /\ calls' = Append(calls, RemoteCall(PRIMARY_MODEL, user_text))
    /\ \/ /\ outcomes' = Append(outcomes, "raised")
          /\ pc' = AfterPrimaryRaised
          /\ UNCHANGED <<raw, source>>
       \/ \E i \in 1..Len(REPLIES) :
             /\ outcomes' = Append(outcomes, "ok")
             /\ raw' = REPLIES[i]
             /\ source' = PRIMARY_MODEL
             /\ pc' = "log_used"
    /\ UNCHANGED <<client, req, user_text, failure, log_calls, result, returns,
                   fpc, fin, fout>>

\* lines 277-286
CallSecondary ==
    /\ pc = "secondary"
    /\ calls' = Append(calls, RemoteCall(SECONDARY_MODEL, user_text))
    /\ \/ /\ outcomes' = Append(outcomes, "raised")
          /\ failure' = "Exception"
          /\ pc' = InnerExcept("Exception")
          /\ UNCHANGED <<raw, source>>
       \/ \E i \in 1..Len(REPLIES) :
             /\ outcomes' = Append(outcomes, "ok")
             /\ raw' = REPLIES[i]
             /\ source' = SECONDARY_MODEL
             /\ pc' = "log_used"
             /\ UNCHANGED failure
    /\ UNCHANGED <<client, req, user_text, log_calls, result, returns, fpc, fin, fout>>

\* line 288
LogUsed ==
    /\ pc = "log_used"
    /\ \E ok \in BOOLEAN :
          log_calls' = log_raw(log_calls, user_text, "raw", "Used " \o source, ok)
    /\ pc' = "parse"
    /\ UNCHANGED <<client, req, user_text, calls, outcomes, raw, source, failure,
                   result, returns, fpc, fin, fout>>

\* the error lines 291-299 raise on raw_, or "none"
ParseError(raw_) ==
    LET parsed == json_loads(safe_clean(raw_))
    IN  IF parsed.t = "error" THEN "JSONDecodeError"
        ELSE IF parsed.t = "num" THEN "TypeError"
        ELSE IF ~HasKey(parsed.v, "title") \/ ~HasKey(parsed.v, "sections")
        THEN "ValueError"
        ELSE IF ConvertRaises(parsed.v) THEN "TypeError"
        ELSE "none"

\* lines 291-301
Parse ==
    /\ pc = "parse"
    /\ IF ParseError(raw) = "none"
       THEN /\ Return(convert_to_professional_schema(json_loads(safe_clean(raw)).v))
            /\ UNCHANGED failure
       ELSE /\ failure' = ParseError(raw)
            /\ pc' = InnerExcept(ParseError(raw))
            /\ UNCHANGED <<result, returns>>
    /\ UNCHANGED <<client, req, user_text, calls, outcomes, raw, source, log_calls,
                   fpc, fin, fout>>

\* lines 303-305
JsonError ==
    /\ pc = "json_error"
    /\ \E ok \in BOOLEAN :
          log_calls' = log_raw(log_calls, user_text, "JSON Error",
                               "JSON_PARSE_FALLBACK", ok)
    /\ pc' = "fallback"
    /\ UNCHANGED <<client, req, user_text, calls, outcomes, raw, source, failure,
                   result, returns, fpc, fin, fout>>

\* lines 306-308
ApiError ==
    /\ pc = "api_error"
    /\ \E ok \in BOOLEAN :
          log_calls' = log_raw(log_calls, user_text, "API Error", "API_FALLBACK", ok)
    /\ pc' = "fallback"
    /\ UNCHANGED <<client, req, user_text, calls, outcomes, raw, source, failure,
                   result, returns, fpc, fin, fout>>

\* lines 311-314
Fallback ==
    /\ pc = "fallback"
    /\ \E ok \in BOOLEAN :
          log_calls' = log_raw(log_calls, user_text, "fallback json",
                               "FALLBACK_USED", ok)
    /\ Return(fallback_from_text(user_text))
    /\ UNCHANGED <<client, req, user_text, calls, outcomes, raw, source, failure,
                   fpc, fin, fout>>

\* lines 316-333.  Line 322 reads the request again: that raises for an
\* unreadable body or a body that is no object (log_raw is then not called), and
\* a "text" that is no string makes log_raw fail inside its own try
Fatal ==
    /\ pc = "fatal"
    /\ IF req.kind \in {"unreadable", "nondict"}
       THEN UNCHANGED log_calls
       ELSE \E ok \in (IF req.kind = "text_not_str" THEN {FALSE} ELSE BOOLEAN) :
               log_calls' = log_raw(log_calls, req.text, "Fatal Error",
                                    "FATAL_ERROR", ok)
    /\ Return(SYSTEM_ERROR_RESULT)
    /\ UNCHANGED <<client, req, user_text, calls, outcomes, raw, source, failure,
                   fpc, fin, fout>>

\* the state once app.py is imported: the client is configured or None
\* (lines 19-23), nothing is logged and no request is being served
Init ==
    /\ pc = "idle"
    /\ client \in BOOLEAN
    /\ req = Request("none", <<>>)
    /\ user_text = <<>>
    /\ calls = <<>>
    /\ outcomes = <<>>
    /\ raw = <<>>
    /\ source = ""
    /\ failure = "none"
    /\ log_calls = <<>>
    /\ result = <<>>
    /\ returns = 0
    /\ fpc = "unused"
    /\ fin = <<>>
    /\ fout = <<>>

Next ==
    \/ Receive
    \/ Validate
    \/ CallPrimary
    \/ CallSecondary
    \/ LogUsed
    \/ Parse
    \/ JsonError
    \/ ApiError
    \/ Fallback
    \/ Fatal

Spec == Init /\ [][Next]_vars

----------------------------------------------------------------------------
(* Direct calls of the pure functions                                      *)

\* no request is served while a function is called directly
HandlerIdle ==
    /\ pc = "idle"
    /\ client = FALSE
    /\ req = Request("none", <<>>)
    /\ user_text = <<>>
    /\ calls = <<>>
    /\ outcomes = <<>>
    /\ raw = <<>>
    /\ source = ""
    /\ failure = "none"
    /\ log_calls = <<>>
    /\ result = <<>>
    /\ returns = 0

MaxCleanTokens == 4

CLEAN_TOKENS ==
    <<FENCE, FENCE \o JSON_TAG, FENCE \o <<"J", "S", "o", "n">>, <<BT>>,
      <<"{">>, <<"}">>, <<"a">>, <<" ">> >>

CleanInputs ==
    {Concat([i \in 1..Len(w) |-> CLEAN_TOKENS[w[i]]]) :
        w \in SeqUpTo(1..Len(CLEAN_TOKENS), MaxCleanTokens)}

InitClean ==
    /\ HandlerIdle
    /\ fpc = "call"
    /\ fin \in CleanInputs
    /\ fout = <<>>

CleanCall ==
    /\ fpc = "call"
    /\ fout' = safe_clean(fin)
    /\ fpc' = "returned"
    /\ UNCHANGED <<gvars, fin>>

NextClean == CleanCall

SpecClean == InitClean /\ [][NextClean]_vars

----------------------------------------------------------------------------
(* C9: the Text Cleaner                                                    *)

\* the maximal run of backticks around position i of s
RunFirst(s, i) == CHOOSE a \in 1..i :
                      /\ \A k \in a..i : s[k] = BT
                      /\ a = 1 \/ s[a - 1] # BT

RunLast(s, i) == CHOOSE b \in i..Len(s) :
                     /\ \A k \in i..b : s[k] = BT
                     /\ b = Len(s) \/ s[b + 1] # BT

RunLen(s, i) == RunLast(s, i) - RunFirst(s, i) + 1

\* position i belongs to a code-fence delimiter: it is one of the backticks of
\* a complete triple of its run, or a letter of a "json" tag (in any case) that
\* directly follows a run made of complete triples
InFence(s, i) ==
    IF s[i] = BT
    THEN i - RunFirst(s, i) < 3 * (RunLen(s, i) \div 3)
    ELSE \E j \in (i - 3)..i :
            /\ j >= 2
            /\ MatchAt(lower(s), JSON_TAG, j)
            /\ s[j - 1] = BT
            /\ RunLen(s, j - 1) % 3 = 0

\* s without its code-fence delimiters
WithoutFences(s) ==
    LET kept == SelectSeq([i \in 1..Len(s) |-> i], LAMBDA i : ~InFence(s, i))
    IN  [k \in 1..Len(kept) |-> s[kept[k]]]

HasChar(s, c) == \E i \in 1..Len(s) : s[i] = c

\* the text from the first "{" to the last "}" of t, both included (empty when
\* the last "}" comes before the first "{")
BraceSpan(t) ==
    LET open == CHOOSE i \in 1..Len(t) :
                    t[i] = "{" /\ \A k \in 1..(i - 1) : t[k] # "{"
        close == CHOOSE i \in 1..Len(t) :
                    t[i] = "}" /\ \A k \in (i + 1)..Len(t) : t[k] # "}"
    IN  [k \in 1..(close - open + 1) |-> t[open + k - 1]]

\* what the Cleaner is to return for the raw text s
CleanerContract(s) ==
    LET t == strip(WithoutFences(s))
    IN  IF HasChar(t, "{") /\ HasChar(t, "}") THEN BraceSpan(t) ELSE t

\* C9 as stated: for every raw string the Text Cleaner returns, of the text with
\* all code-fence delimiters removed and trimmed, the part from the first "{" to
\* the last "}" when both occur and that text otherwise; and applied to a text
\* with no braces it returns the trimmed input unchanged.
C9_AsStated ==
    fpc = "returned" =>
        /\ fout = CleanerContract(fin)
        /\ (~HasChar(fin, "{") /\ ~HasChar(fin, "}")) => fout = strip(fin)

\* C9 amended: the first part as stated (the part returned is empty when the
\* last "}" comes before the first "{"); applied to a text with no braces and no
\* code-fence delimiter the Text Cleaner returns the trimmed input unchanged, and
\* applied to a text with no braces it returns the trimmed text that is left
\* once the code-fence delimiters are removed.
C9_Cleaner ==
    fpc = "returned" =>
        /\ fout = CleanerContract(fin)
        /\ ~Contains(fout, FENCE)
        /\ (~HasChar(fin, "{") /\ ~HasChar(fin, "}")) =>
               /\ fout = strip(WithoutFences(fin))
               /\ ~Contains(fin, FENCE) => fout = strip(fin)

\* a fenced, tagged reply with text after an object has been cleaned to the
\* object alone
C9_Witness ==
    /\ fpc = "returned"
    /\ Contains(fin, FENCE \o <<"J", "S", "o", "n">>)
    /\ fin[Len(fin)] = "a"
    /\ fout = <<"{", "}">>

----------------------------------------------------------------------------
(* fallback_from_text called directly                                      *)

MaxKeywordTokens == 2

MaxSentenceTokens == 6

MaxBlankChars == 2

LongLen == 121

\* a sentence longer than every truncation length
LONG_SENTENCE == [i \in 1..LongLen |-> "x"] \o <<".">>

\* every keyword of the three lists, some in other cases, and neutral words
KEYWORD_TOKENS ==
    COMPARISON_WORDS \o HIERARCHY_WORDS \o CONCEPT_WORDS \o
    <<<<"L","E","V","E","L">>, <<"C","o","m","p","a","r","e">>, <<"M","a","I","n">>, <<"a","b">>, <<" ">>>>

SENTENCE_TOKENS == <<<<"A","b","."," ">>, LONG_SENTENCE, <<"V","s","!","\n">>>>

BLANK_CHARS == <<".", " ", "\n", "?">>

TextsOver(tokens, n) ==
    {Concat([i \in 1..Len(w) |-> tokens[w[i]]]) : w \in SeqUpTo(1..Len(tokens), n)}

FallbackInputs ==
    TextsOver(KEYWORD_TOKENS, MaxKeywordTokens)
        \cup TextsOver(SENTENCE_TOKENS, MaxSentenceTokens)
        \cup SeqUpTo({BLANK_CHARS[i] : i \in 1..Len(BLANK_CHARS)}, MaxBlankChars)

InitFallback ==
    /\ HandlerIdle
    /\ fpc = "call"
    /\ fin \in FallbackInputs
    /\ fout = <<>>

FallbackCall ==
    /\ fpc = "call"
    /\ fout' = fallback_from_text(fin)
    /\ fpc' = "returned"
    /\ UNCHANGED <<gvars, fin>>

NextFallback == FallbackCall

SpecFallback == InitFallback /\ [][NextFallback]_vars

----------------------------------------------------------------------------
(* C6: layout chosen by the Heuristic Fallback Generator                   *)

SameLetter(a, b) ==
    \/ a = b
    \/ a \in DOMAIN UpperToLower /\ UpperToLower[a] = b

\* word occurs somewhere in text, whatever the case of the text's letters
Occurs(word, text) ==
    \E i \in 1..(Len(text) - Len(word) + 1) :
        \A k \in 1..Len(word) : SameLetter(text[i + k - 1], word[k])

Mentions(words, text) == \E k \in 1..Len(words) : Occurs(words[k], text)

\* C6: the layout is comparison when a comparison keyword occurs in the text
\* (in any case); else hierarchy when a hierarchy keyword occurs; else
\* concept_map when a concept keyword occurs; else process_flow; and visual_flow
\* is always top_to_bottom.
C6_Layout ==
    fpc = "returned" =>
        /\ fout.layout =
              (CASE Mentions(COMPARISON_WORDS, fin) -> "comparison"
                 [] ~Mentions(COMPARISON_WORDS, fin)
                      /\ Mentions(HIERARCHY_WORDS, fin) -> "hierarchy"
                 [] ~Mentions(COMPARISON_WORDS, fin)
                      /\ ~Mentions(HIERARCHY_WORDS, fin)
                      /\ Mentions(CONCEPT_WORDS, fin) -> "concept_map"
                 [] OTHER -> "process_flow")
        /\ fout.visual_flow = "top_to_bottom"

\* a text naming a concept keyword before a comparison keyword, both in upper
\* or mixed case, got the comparison layout
C6_Witness ==
    /\ fpc = "returned"
    /\ fin = <<"M", "a", "I", "n", "C", "o", "m", "p", "a", "r", "e">>
    /\ fout.layout = "comparison"

----------------------------------------------------------------------------
(* C7: sections built by the Heuristic Fallback Generator                  *)

\* the sentences of text: its maximal stretches free of ".", "!", "?" and
\* newline, trimmed, the empty ones dropped
Stretches(text) ==
    LET starts == SelectSeq([i \in 1..Len(text) |-> i],
                            LAMBDA i : /\ ~IsDelim(text[i])
                                       /\ i = 1 \/ IsDelim(text[i - 1]))
        last(a) == CHOOSE b \in a..Len(text) :
                       /\ \A k \in a..b : ~IsDelim(text[k])
                       /\ b = Len(text) \/ IsDelim(text[b + 1])
        stretch(a) == SubSeq(text, a, last(a))
        trimmed == [k \in 1..Len(starts) |-> strip(stretch(starts[k]))]
    IN  SelectSeq(trimmed, LAMBDA p : p # <<>>)

Min(a, b) == IF a < b THEN a ELSE b

\* the first n characters of s
Prefix(s, n) == [k \in 1..Min(n, Len(s)) |-> s[k]]

PALETTE_SIZE == 6

\* C7: with n >= 1 sentences there are exactly min(n, 5) sections in sentence
\* order: the first is main_concept / primary / heavy in the first palette
\* colour with the first sentence cut to 120 characters; each of sentences 2-5 is
\* cut to 100 characters, process_step when the layout is process_flow and
\* supporting_point otherwise, secondary / medium, coloured from the 6-colour
\* palette by position.  With no sentence there is exactly one main_concept
\* section holding the first 120 characters of the input, or the placeholder
\* when the input is empty.  So 1 <= |sections| <= 5 and exactly one section is
\* a main_concept.
C7_Sections ==
    fpc = "returned" =>
        LET sent == Stretches(fin)
            n == Len(sent)
            secs == fout.sections
        IN  /\ n >= 1 =>
                /\ Len(secs) = Min(n, 5)
                /\ secs[1] = [role |-> "main_concept", text |-> Prefix(sent[1], 120),
                              color |-> colors[1], emphasis |-> "primary",
                              visual_weight |-> "heavy"]
                /\ \A p \in 2..Min(n, 5) :
                      secs[p] = [role |-> IF fout.layout = "process_flow"
                                          THEN "process_step"
                                          ELSE "supporting_point",
                                 text |-> Prefix(sent[p], 100),
                                 color |-> colors[((p - 1) % PALETTE_SIZE) + 1],
                                 emphasis |-> "secondary",
                                 visual_weight |-> "medium"]
            /\ n = 0 =>
                /\ Len(secs) = 1
                /\ secs[1].role = "main_concept"
                /\ secs[1].text = IF fin = <<>> THEN NO_CONTENT ELSE Prefix(fin, 120)
            /\ Len(secs) \in 1..5
            /\ Cardinality({p \in 1..Len(secs) : secs[p].role = "main_concept"}) = 1

\* six sentences, the first two longer than 120 characters, gave five sections,
\* the first cut to 120 and the second to 100 characters
C7_Witness ==
    /\ fpc = "returned"
    /\ Len(Sentences(fin)) = 6
    /\ Len(fout.sections) = 5
    /\ Len(fout.sections[1].text) = 120
    /\ Len(fout.sections[2].text) = 100
    /\ Len(Sentences(fin)[2]) > 120
    /\ fout.sections[5].color = "purple"

----------------------------------------------------------------------------
(* convert_to_professional_schema called directly                          *)

MaxSections == 3

\* the sections a parsed reply may hold: each legacy type, types the code does
\* not name, a type that is a number, no type at all, and a new-format section
SECTION_POOL ==
    << [type |-> Str(BOX), text |-> <<"A">>],
       [type |-> Str(ICON_BOX), text |-> <<"A">>, color |-> "red"],
       [type |-> Str(ARROW), text |-> <<"-", ">">>],
       [type |-> Str(CONNECTOR)],
       [type |-> Str(PROCESS), text |-> <<"B">>, color |-> "green"],
       [type |-> Str(LIST), text |-> <<"B">>],
       [type |-> Str(<<"c","h","e","c","k","l","i","s","t">>), text |-> <<"C">>],
       [type |-> Str(<<"c","i","r","c","l","e">>), color |-> "pink"],
       [text |-> <<"A">>],
       [type |-> NonStr(<<"5">>), text |-> <<"A">>],
       [role |-> "conclusion", text |-> <<"Z">>] >>

\* the object with the given keys: "title" and "visual_flow" when asked for,
\* "sections" holding the pool's sections of the given indices
Structure(has_title, has_flow, has_sections, idx) ==
    LET secs == [i \in 1..Len(idx) |-> SECTION_POOL[idx[i]]]
    IN  CASE has_title /\ has_flow /\ has_sections ->
                [title |-> T_PLAN, visual_flow |-> "layered", sections |-> secs]
          [] has_title /\ has_flow /\ ~has_sections ->
                [title |-> T_PLAN, visual_flow |-> "layered"]
          [] has_title /\ ~has_flow /\ has_sections ->
                [title |-> T_PLAN, sections |-> secs]
          [] has_title /\ ~has_flow /\ ~has_sections -> [title |-> T_PLAN]
          [] ~has_title /\ has_flow /\ has_sections ->
                [visual_flow |-> "layered", sections |-> secs]
          [] ~has_title /\ has_flow /\ ~has_sections -> [visual_flow |-> "layered"]
          [] ~has_title /\ ~has_flow /\ has_sections -> [sections |-> secs]
          [] OTHER -> <<>>

InitNormalize ==
    /\ HandlerIdle
    /\ fpc = "call"
    /\ \E has_title \in BOOLEAN, has_flow \in BOOLEAN, has_sections \in BOOLEAN :
          \E idx \in (IF has_sections
                      THEN SeqUpTo(1..Len(SECTION_POOL), MaxSections) ELSE {<<>>}) :
              fin = Structure(has_title, has_flow, has_sections, idx)
    /\ fout = <<>>

NormalizeCall ==
    /\ fpc = "call"
    /\ IF ConvertRaises(fin)
       THEN fpc' = "raised" /\ UNCHANGED fout
       ELSE fpc' = "returned" /\ fout' = convert_to_professional_schema(fin)
    /\ UNCHANGED <<gvars, fin>>

NextNormalize == NormalizeCall

SpecNormalize == InitNormalize /\ [][NextNormalize]_vars

----------------------------------------------------------------------------
(* C8: legacy sections mapped by the Schema Normalizer                     *)

\* no visual_flow key and no section carrying a role key
IsLegacy(d) ==
    /\ ~HasKey(d, "visual_flow")
    /\ HasKey(d, "sections") =>
          \A i \in 1..Len(d.sections) : ~HasKey(d.sections[i], "role")

LegacySections(d) == IF HasKey(d, "sections") THEN d.sections ELSE <<>>

TypeIs(section, names) ==
    /\ HasKey(section, "type")
    /\ section.type.str
    /\ section.type.v \in names

\* the role, emphasis and weight C8 gives the section at 1-based position p
\* whose type is taken to be box when typeless_is_box and the key is missing
MappedRole(section, p, typeless_is_box) ==
    LET boxlike == \/ TypeIs(section, {BOX, ICON_BOX})
                   \/ typeless_is_box /\ ~HasKey(section, "type")
    IN  IF boxlike /\ p = 1 THEN <<"main_concept", "primary", "heavy">>
        ELSE IF TypeIs(section, {ARROW, CONNECTOR})
        THEN <<"connector", "tertiary", "light">>
        ELSE IF TypeIs(section, {PROCESS, LIST})
        THEN <<"process_step", "secondary", "medium">>
        ELSE <<"supporting_point", "secondary", "medium">>

SectionsMapped(old, new, typeless_is_box) ==
    /\ Len(new) = Len(old)
    /\ \A p \in 1..Len(old) :
          /\ <<new[p].role, new[p].emphasis, new[p].visual_weight>>
                = MappedRole(old[p], p, typeless_is_box)
          /\ new[p].color = IF HasKey(old[p], "color") THEN old[p].color ELSE "blue"

\* the scan for a list type meets a type that is a number or null: no section
\* has the type arrow, and some section carries such a type with no section
\* before it whose type is a string containing "list"
TypeRejected(d) ==
    LET old == LegacySections(d)
        HasList(v) == \E j \in 1..(Len(v) - Len(LIST) + 1) :
                          \A k \in 1..Len(LIST) : v[j + k - 1] = LIST[k]
    IN  /\ \A i \in 1..Len(old) : ~TypeIs(old[i], {ARROW})
        /\ \E i \in 1..Len(old) :
              /\ HasKey(old[i], "type")
              /\ ~old[i].type.str
              /\ \A k \in 1..(i - 1) :
                    ~(/\ HasKey(old[k], "type")
                      /\ old[k].type.str
                      /\ HasList(old[k].type.v))

----------------------------------------------------------------------------
(* Claims about the /generate handler                                      *)

Blank(text) == \A i \in 1..Len(text) : IsSpace(text[i])

\* the request carries a user text (a missing "text" counts as the empty text)
HasUserText == req.kind \in {"no_text_key", "text"}

\* the user text once its leading and trailing white space is dropped
Trimmed(text) ==
    IF Blank(text) THEN <<>>
    ELSE LET a == CHOOSE i \in 1..Len(text) :
                      ~IsSpace(text[i]) /\ \A k \in 1..(i - 1) : IsSpace(text[k])
             b == CHOOSE i \in 1..Len(text) :
                      ~IsSpace(text[i]) /\ \A k \in (i + 1)..Len(text) : IsSpace(text[k])
         IN  [k \in 1..(b - a + 1) |-> text[a + k - 1]]

LAYOUTS == {"process_flow", "concept_map", "hierarchy", "comparison"}

VISUAL_FLOWS == {"top_to_bottom", "left_to_right", "center_radial", "layered"}

\* C1: for every user text that is non-empty after trimming and every behaviour
\* of the remote service, the result has a non-empty title, a layout and a
\* visual_flow of the two enumerations and at least one section.
C1_ValidResult ==
    (pc = "done" /\ HasUserText /\ ~Blank(req.text)) =>
        /\ HasKey(result, "title") /\ result.title # <<>>
        /\ HasKey(result, "layout") /\ result.layout \in LAYOUTS
        /\ HasKey(result, "visual_flow") /\ result.visual_flow \in VISUAL_FLOWS
        /\ HasKey(result, "sections") /\ Len(result.sections) >= 1

OUTER_FAILURES == {"HTTPException", "AttributeError"}

\* the positions of the handler.  Each but "done" is the whole guard of one
\* step, so the handler can always go on until it has returned
POSITIONS == {"idle", "validate", "primary", "secondary", "log_used", "parse",
              "json_error", "api_error", "fallback", "fatal", "done"}

\* C2: every request ends by returning exactly one result and no exception
\* leaves generate: the handler is always at a position from which it goes on
\* to its return, it has returned once when it is done and not before, what it
\* returns is a result, and a failure the inner handlers do not take gives the
\* fixed SYSTEM ERROR result with two sections.
C2_AlwaysReturns ==
    /\ pc \in POSITIONS
    /\ returns = (IF pc = "done" THEN 1 ELSE 0)
    /\ pc = "done" => HasKey(result, "title") /\ HasKey(result, "sections")
    /\ (pc = "done" /\ failure \in OUTER_FAILURES) =>
          /\ result = SYSTEM_ERROR_RESULT
          /\ Len(result.sections) = 2

\* a request whose "text" is no string was answered with the SYSTEM ERROR result
C2_Witness ==
    /\ pc = "done"
    /\ req.kind = "text_not_str"
    /\ failure = "AttributeError"
    /\ result = SYSTEM_ERROR_RESULT
    /\ returns = 1

\* C3: for an empty or whitespace-only user text the result is the fixed
\* input-error result and no remote call is made during the request, with or
\* without a client.
C3_EmptyInput ==
    (HasUserText /\ Blank(req.text)) =>
        /\ calls = <<>>
        /\ pc \in {"validate", "done"}
        /\ pc = "done" => result = NO_INPUT_RESULT

\* with a client configured, a text of white space only got the input-error
\* result
C3_Witness ==
    /\ pc = "done"
    /\ client
    /\ req.kind = "text"
    /\ req.text = <<" ", "\n">>
    /\ result = NO_INPUT_RESULT
    /\ calls = <<>>

\* C4: for a non-empty user text, with no client, or with both the primary and
\* the secondary attempt raising, the result carries the fallback note and
\* equals the Heuristic Fallback Generator's result on the user text; with no
\* client no remote call is made.
C4_FallbackResult ==
    (HasUserText /\ ~Blank(req.text)) =>
        /\ ~client => calls = <<>>
        /\ (pc = "done" /\ (~client \/ outcomes = <<"raised", "raised">>)) =>
              /\ result = fallback_from_text(Trimmed(req.text))
              /\ result.note = FALLBACK_NOTE

\* both attempts raised and the fallback result was returned
C4_Witness ==
    /\ pc = "done"
    /\ client
    /\ outcomes = <<"raised", "raised">>
    /\ Len(calls) = 2
    /\ result.note = FALLBACK_NOTE
    /\ result.layout = "comparison"

\* the cleaned reply is not valid structured data
ReplyInvalid == json_loads(safe_clean(raw)).t = "error"

\* the cleaned reply is valid but has no top-level title or no sections
ReplyLacksFields ==
    LET parsed == json_loads(safe_clean(raw))
    IN  \/ parsed.t = "num"
        \/ parsed.t = "dict"
             /\ (~HasKey(parsed.v, "title") \/ ~HasKey(parsed.v, "sections"))

ERROR_NOTES == {"JSON_PARSE_FALLBACK", "API_FALLBACK"}

\* the records of LOGFILE: the log_raw calls whose write succeeded
LogFile == SelectSeq(log_calls, LAMBDA r : r.written)

\* a record of the error is among the records of log, before any FALLBACK_USED
\* record, tagged JSON_PARSE_FALLBACK when the reply was invalid
ErrorRecorded(log) ==
    \E i \in 1..Len(log) :
        /\ log[i].note \in ERROR_NOTES
        /\ ReplyInvalid => log[i].note = "JSON_PARSE_FALLBACK"
        /\ \A k \in 1..i : log[k].note # "FALLBACK_USED"

\* the request is past the handlers of the inner try after a successful attempt
\* whose reply did not parse or lacked a field
AfterBadReply ==
    /\ pc \in {"fallback", "done"}
    /\ Len(outcomes) >= 1 /\ outcomes[Len(outcomes)] = "ok"
    /\ ReplyInvalid \/ ReplyLacksFields

\* C5 as stated: after a successful attempt whose cleaned reply is invalid or
\* lacks title or sections, the result is the Heuristic Fallback Generator's and
\* a record of the error is appended to the log before the result is returned,
\* tagged JSON_PARSE_FALLBACK for invalid text.
C5_AsStated ==
    AfterBadReply =>
        /\ ErrorRecorded(LogFile)
        /\ pc = "done" => result = fallback_from_text(user_text)

\* C5 amended: ... the result is the Heuristic Fallback Generator's and a record
\* of the error, tagged JSON_PARSE_FALLBACK for invalid text, is handed to
\* log_raw before the result is returned; it is appended to the log unless that
\* write fails, which log_raw swallows.
C5_BadReply ==
    AfterBadReply =>
        /\ ErrorRecorded(log_calls)
        /\ (\A i \in 1..Len(log_calls) : log_calls[i].written)
              => ErrorRecorded(LogFile)
        /\ pc = "done" => result = fallback_from_text(user_text)

\* an invalid reply of the secondary model led to the fallback result, with the
\* JSON_PARSE_FALLBACK record written
C5_Witness ==
    /\ pc = "done"
    /\ outcomes = <<"raised", "ok">>
    /\ raw = <<"{", "<NEW>", "}", " ", "{", "<NEW>", "}">>
    /\ ReplyInvalid
    /\ ErrorRecorded(LogFile)
    /\ result.note = FALLBACK_NOTE

\* C10: with a client and a non-empty text the primary model is called first and
\* once; the secondary model is called exactly when the primary call raised,
\* once, after it, with the same prompt and config; nothing is called after a
\* call succeeded or a reply failed to parse; so at most two calls are made.
C10_RemoteCalls ==
    /\ Len(calls) <= 2
    /\ Len(outcomes) = Len(calls)
    /\ \A i \in 1..(Len(outcomes) - 1) : outcomes[i] = "raised"
    /\ Len(calls) >= 1 =>
          /\ calls[1].model = PRIMARY_MODEL
          /\ calls[1].contents = <<"NAPKIN_PROMPT", "\n", "\n">> \o Trimmed(req.text)
    /\ Len(calls) = 2 =>
          /\ calls[2].model = SECONDARY_MODEL
          /\ calls[2].contents = calls[1].contents
          /\ calls[2].config = calls[1].config
    /\ (pc \notin {"idle", "validate", "primary"}
          /\ client /\ HasUserText /\ ~Blank(req.text)) =>
          /\ Len(calls) >= 1
          /\ (outcomes[1] = "raised" /\ pc # "secondary") <=> Len(calls) = 2

\* the primary call raised, the secondary one succeeded and its reply was
\* returned
C10_Witness ==
    /\ pc = "done"
    /\ Len(calls) = 2
    /\ outcomes = <<"raised", "ok">>
    /\ source = SECONDARY_MODEL
    /\ result = NEW_DOC

====
